---- MODULE Spec2Model ----
\* A state-machine model of examples/embedding/embedding.cpp: tokenization and
\* the length check, the SEP append, the batch assembly loop, the two
\* decode-and-extract functions, and the output sink.
\*
\* The inference engine (the tokenizer, llama_decode, the llama_get_embeddings
\* calls, llama_embd_normalize) is external to that file: its results are drawn
\* from small sets, its values are synthetic.
EXTENDS Integers, Sequences, FiniteSets, TLC

\* ---------------------------------------------------------------- bounds
MaxPrompts == 2     \* at most this many prompt lines (the scenarios have more)
MaxLen     == 2     \* the tokenizer returns at most this many tokens per line
MaxBatch   == 3     \* n_batch ranges over 1..MaxBatch
MaxFaults  == 1     \* at most this many decodes with a non-nominal engine result

\* ------------------------------------------------------ program constants
SEP    == 0         \* llama_token_sep(model)
TOK    == 1         \* some token other than SEP
n_embd == 2         \* llama_n_embd(model)

VARIABLES
    pc,             \* position in main(): "tokenize", "loop", "add", "sink", "exit"
    n_batch,        \* params.n_batch (as uint64_t n_batch)
    manual_pooling, \* params.manual_pooling
    logits_file,    \* params.logits_file ("" when no destination is configured)
    pooling_type,   \* the context's pooling type: "NONE" or "MEAN"
    n_prompts,      \* prompts.size(): the number of lines of params.prompt
    source,         \* which lines the run was given: 0 for any, or a scenario
    rejected,       \* history: the token list the length check rejected, if any
    inputs,         \* std::vector<std::vector<int32_t>> inputs
    batch,          \* llama_batch: a sequence of slots [token, pos, seq_id, logits]
    owner,          \* history: owner[i] = the k of the sequence that filled slot i
    k, p, s,        \* the loop counter and the counters p and s of main()
    eng,            \* the engine and the output buffer, with their histories:
                    \*   emb      the output buffer (flat, n_prompts * n_embd floats)
                    \*   kv_clean TRUE from llama_kv_cache_clear to the next llama_decode
                    \*   avail    what the engine holds after the last llama_decode
                    \*   events   history: "clear", "decode", "extract", "batch_clear"
                    \*   decoded  history: the batches passed to llama_decode
                    \*   writes   history: the writes into the output buffer
    faults,         \* number of non-nominal engine results so far
    calls,          \* history: the calls of the two decode functions, in order
    sink,           \* what the output sink did
    status          \* "running", "exit0" (return 0), "exit1" (return 1) or "crash"

vars == <<pc, n_batch, manual_pooling, logits_file, pooling_type, n_prompts, source,
          rejected, inputs, batch, owner, k, p, s, eng, faults, calls, sink, status>>

\* ------------------------------------------------------------------ floats
\* A float is n / (d * sqrt(r)); d = 0 is the result of a division by zero.
Flt(num, den, rad) == [n |-> num, d |-> den, r |-> rad]
FZero == Flt(0, 1, 1)

RECURSIVE SumTo(_, _)
SumTo(f, m) == IF m = 0 THEN 0 ELSE f[m] + SumTo(f, m - 1)

\* ------------------------------------------------------------ token lists
RECURSIVE Ones(_)
Ones(len) == IF len = 0 THEN <<>> ELSE Append(Ones(len - 1), TOK)

\* The token lists the tokenizer may return for a line: up to maxlen tokens, the
\* last of which may or may not be SEP.
TokenLists(maxlen) ==
    {Ones(len) : len \in 0..maxlen} \cup {Append(Ones(len - 1), SEP) : len \in 1..maxlen}

\* Fixed runs, beside the bounded ones: what the tokenizer returns for each line,
\* and n_batch.
\*   1: the end-to-end scenario: sequences of 4 and 6 tokens, n_batch = 8;
\*   2: the boundary scenario: n_batch is the sum of the first two lengths (1, 2),
\*      and a third sequence follows;
\*   3: sequences of 2, 1 and 1 tokens, n_batch = 2: the second batch holds the
\*      sequences 1 and 2;
\*   4: four sequences of 1 token, n_batch = 3: more prompts than the preview
\*      prints, and a first batch of three sequences;
\*   5: sequences of 2, 1 and 2 tokens, n_batch = 3: the first batch holds a
\*      sequence of two tokens followed by another sequence.
Scenarios ==
    << [n_batch |-> 8, lists |-> <<Append(Ones(3), SEP), Append(Ones(5), SEP)>>],
       [n_batch |-> 3, lists |-> <<<<>>, Ones(1), Ones(1)>>],
       [n_batch |-> 2, lists |-> <<Ones(1), <<SEP>>, <<>>>>],
       [n_batch |-> 3, lists |-> <<<<>>, <<>>, <<>>, <<>>>>],
       [n_batch |-> 3, lists |-> <<Ones(1), <<>>, Ones(1)>>] >>

\* ------------------------------------------------------------------ engine
\* Slot i of the batch (slots are numbered from 0 as in the code).
Slot(b, i) == b[i + 1]
SeqIds(b) == {b[x].seq_id : x \in 1..Len(b)}
Marked(b) == {i \in 0..(Len(b) - 1) : Slot(b, i).logits}

\* The raw per-token embedding the engine holds for slot i after a decode.
TokEmbd(b, i) == <<2 * Slot(b, i).pos + 1, Slot(b, i).seq_id>>

\* The sequence-level pooled embedding the engine holds for sequence id sid.
SeqEmbd(b, sid) ==
    LET mine == [x \in 1..Len(b) |-> IF b[x].seq_id = sid THEN 1 ELSE 0]
    IN  [j \in 1..n_embd |->
            SumTo([x \in 1..Len(b) |-> mine[x] * TokEmbd(b, x - 1)[j]], Len(b))]

\* llama_embd_normalize: divide by the Euclidean norm; a zero norm gives zeros.
Normalize(v) ==
    LET ss == SumTo([j \in 1..n_embd |-> v[j] * v[j]], n_embd)
    IN  [j \in 1..n_embd |-> IF ss > 0 THEN Flt(v[j], 1, ss) ELSE FZero]

\* What llama_decode may leave behind for batch b: its return code, the sequence
\* ids with a pooled embedding and the slots with a per-token embedding.
Nominal(b, pt) ==
    [rc |-> 0,
     seqs |-> IF pt = "NONE" THEN {} ELSE SeqIds(b),
     toks |-> Marked(b)]

Faulty(b, pt) ==
    {[Nominal(b, pt) EXCEPT !.rc = -1], [rc |-> -1, seqs |-> {}, toks |-> {}]}
    \cup {[Nominal(b, pt) EXCEPT !.toks = @ \ {i}] : i \in Nominal(b, pt).toks}
    \cup {[Nominal(b, pt) EXCEPT !.seqs = @ \ {j}] : j \in Nominal(b, pt).seqs}

EngineOutcomes(b, pt, nfaults) ==
    {Nominal(b, pt)} \cup (IF nfaults < MaxFaults THEN Faulty(b, pt) ELSE {})

\* The values an uninitialized float of a malloc'ed buffer may hold.
Garbage == {0, 9}

\* ---------------------------------------------------------- pure functions
\* embedding.cpp 180-185: add SEP if not present.
AddSep_always(inp) == Append(inp, SEP)

AddSep(inp) ==
    IF Len(inp) = 0 \/ inp[Len(inp)] # SEP THEN Append(inp, SEP) ELSE inp

\* embedding.cpp 20-24: the slots batch_add_seq appends for tokens.
BatchAddSeqSlots_firstMarked(tokens, seq_id, all_tokens) ==
    [x \in 1..Len(tokens) |->
        [token |-> tokens[x], pos |-> x - 1, seq_id |-> seq_id,
         logits |-> (all_tokens \/ (x - 1 = 0))]]

BatchAddSeqSlots_posFromOne(tokens, seq_id, all_tokens) ==
    [x \in 1..Len(tokens) |->
        [token |-> tokens[x], pos |-> x, seq_id |-> seq_id,
         logits |-> (all_tokens \/ (x - 1 = Len(tokens) - 1))]]

BatchAddSeqSlots(tokens, seq_id, all_tokens) ==
    [x \in 1..Len(tokens) |->
        [token |-> tokens[x], pos |-> x - 1, seq_id |-> seq_id,
         logits |-> (all_tokens \/ (x - 1 = Len(tokens) - 1))]]

\* embedding.cpp 26-40: embd is a sequence of n_tokens vectors.
mean_pooling_noDivide(embd, n_tokens) ==
    [j \in 1..n_embd |->
        Flt(SumTo([x \in 1..n_tokens |-> embd[x][j]], n_tokens), 1, 1)]

mean_pooling(embd, n_tokens) ==
    [j \in 1..n_embd |->
        Flt(SumTo([x \in 1..n_tokens |-> embd[x][j]], n_tokens), n_tokens, 1)]

\* A write of the n_embd floats of vec at offset off of the buffer. Every offset
\* the program computes is recorded in the history variable writes.
WriteAt(buf, off, vec) ==
    [x \in 1..Len(buf) |->
        IF x - 1 >= off /\ x - 1 < off + n_embd THEN vec[x - off] ELSE buf[x]]

\* embedding.cpp 57-65: where the embedding of marked slot i comes from: the
\* pooled one of its sequence id, else the per-token one, else none.
NativePick_tokenFirst(b, i, av) ==
    IF i \in av.toks THEN "tok"
    ELSE IF Slot(b, i).seq_id \in av.seqs THEN "seq" ELSE "none"

NativePick(b, i, av) ==
    IF Slot(b, i).seq_id \in av.seqs THEN "seq"
    ELSE IF i \in av.toks THEN "tok" ELSE "none"

\* embedding.cpp 52-69: the extraction loop of batch_decode from slot i on;
\* base is the offset of the float * output.
RECURSIVE NativeLoop(_, _, _, _, _)
NativeLoop(i, b, own, base, st) ==
    IF i >= Len(b) THEN st
    ELSE IF ~Slot(b, i).logits THEN NativeLoop(i + 1, b, own, base, st)
    ELSE LET sid == Slot(b, i).seq_id
             off == base + sid * n_embd
             wr(src) == [off |-> off, slot |-> i, k |-> own[i + 1], src |-> src,
                         call |-> Len(st.decoded)]
         IN  IF NativePick(b, i, st.avail) = "seq"
             THEN NativeLoop(i + 1, b, own, base,
                    [st EXCEPT !.emb = WriteAt(@, off, Normalize(SeqEmbd(b, sid))),
                               !.writes = Append(@, wr("seq"))])
             ELSE IF NativePick(b, i, st.avail) = "tok"
             THEN NativeLoop(i + 1, b, own, base,
                    [st EXCEPT !.emb = WriteAt(@, off, Normalize(TokEmbd(b, i))),
                               !.writes = Append(@, wr("tok"))])
             ELSE NativeLoop(i + 1, b, own, base, st)

\* embedding.cpp 83-107: the loop of batch_decode_with_manual_pooling from slot
\* i on; temp is temp_out, tos is token_of_seq. A write records the pooled
\* run: its first slot (from) and its length (n).
RECURSIVE ManualLoop(_, _, _, _, _, _, _)
ManualLoop(i, b, own, base, temp, tos, st) ==
    IF i >= Len(b) THEN st
    ELSE IF ~Slot(b, i).logits THEN ManualLoop(i + 1, b, own, base, temp, tos, st)
    ELSE IF i \notin st.avail.toks THEN ManualLoop(i + 1, b, own, base, temp, tos, st)
    ELSE LET temp1 == [temp EXCEPT ![i + 1] = TokEmbd(b, i)]
         IN  IF i # 0 /\ Slot(b, i).pos = 0
             THEN LET run == [x \in 1..tos |-> temp1[(i - tos) + x]]
                      off == base + Slot(b, i - 1).seq_id * n_embd
                  IN  ManualLoop(i + 1, b, own, base, temp1, 1,
                        [st EXCEPT !.emb = WriteAt(@, off, mean_pooling(run, tos)),
                                   !.writes = Append(@, [off |-> off, slot |-> i - 1,
                                                         k |-> own[i], src |-> "mean",
                                                         from |-> i - tos, n |-> tos,
                                                         call |-> Len(st.decoded)])])
             ELSE ManualLoop(i + 1, b, own, base, temp1, tos + 1, st)

\* embedding.cpp 44 and 75: llama_kv_cache_clear(ctx).
KvCacheClear_missing(st) == st

KvCacheClear(st) ==
    [st EXCEPT !.kv_clean = TRUE, !.events = Append(@, "clear")]

\* embedding.cpp 47-50 and 78-81: llama_decode(ctx, batch) leaves o in the engine;
\* a negative return code is logged and nothing else.
LlamaDecode(b, own, o, st) ==
    [st EXCEPT !.kv_clean = FALSE,
               !.avail = o,
               !.events = Append(@, "decode"),
               !.decoded = Append(@, [batch |-> b, owner |-> own, avail |-> o,
                                      clean |-> st.kv_clean])]

\* embedding.cpp 42-70: batch_decode(ctx, batch, output, n_seq, n_embd).
batch_decode(b, own, base, o, st) ==
    LET st1 == LlamaDecode(b, own, o, KvCacheClear(st))
    IN  NativeLoop(0, b, own, base, [st1 EXCEPT !.events = Append(@, "extract")])

\* embedding.cpp 72-108: batch_decode_with_manual_pooling(...); g is what the
\* uninitialized floats of temp_out hold.
batch_decode_with_manual_pooling(b, own, base, o, g, st) ==
    LET st1 == LlamaDecode(b, own, o, KvCacheClear(st))
        temp0 == [x \in 1..Len(b) |-> [j \in 1..n_embd |-> g]]
    IN  ManualLoop(0, b, own, base, temp0, 0,
                   [st1 EXCEPT !.events = Append(@, "extract_manual")])

\* ------------------------------------------------------------------- Init
\* The state at embedding.cpp 168, after the parameters are parsed and the model
\* is loaded (166 asserts n_batch >= n_ctx, so n_batch >= 1).
Init ==
    /\ \/ /\ n_batch \in 1..MaxBatch
          /\ n_prompts \in 0..MaxPrompts
          /\ source = 0
       \/ /\ source \in 1..Len(Scenarios)
          /\ n_batch = Scenarios[source].n_batch
          /\ n_prompts = Len(Scenarios[source].lists)
    /\ rejected = <<>>
    /\ manual_pooling \in BOOLEAN
    /\ logits_file \in {"", "out.bin"}
    /\ pooling_type \in {"NONE", "MEAN"}
    /\ pc = "tokenize"
    /\ inputs = <<>>
    /\ batch = <<>>
    /\ owner = <<>>
    /\ k = 0 /\ p = 0 /\ s = 0
    /\ eng = [emb |-> <<>>, kv_clean |-> FALSE,
              avail |-> [rc |-> 0, seqs |-> {}, toks |-> {}],
              events |-> <<>>, decoded |-> <<>>, writes |-> <<>>]
    /\ faults = 0
    /\ calls = <<>>
    /\ sink = [kind |-> "none", data |-> <<>>]
    /\ status = "running"

\* What llama_tokenize may return for line number x (from 0) of the prompt.
Tokenized(src, x) ==
    IF src = 0 THEN TokenLists(MaxLen) ELSE {Scenarios[src].lists[x + 1]}

\* ---------------------------------------------------------------- actions
\* embedding.cpp 172: the length check on what the tokenizer returned.
TooLong_lenient(inp, cap) == Len(inp) > cap + 1

TooLong(inp, cap) == Len(inp) > cap

\* embedding.cpp 170-178: one iteration of the tokenize-and-check loop.
Tokenize ==
    /\ pc = "tokenize"
    /\ Len(inputs) < n_prompts
    /\ \E inp \in Tokenized(source, Len(inputs)) :
          IF TooLong(inp, n_batch)
          THEN /\ pc' = "exit"
               /\ status' = "exit1"
               /\ rejected' = <<inp>>
               /\ UNCHANGED inputs
          ELSE /\ inputs' = Append(inputs, inp)
               /\ UNCHANGED <<pc, status, rejected>>
    /\ UNCHANGED <<n_batch, manual_pooling, logits_file, pooling_type, n_prompts, source, batch,
                   owner, k, p, s, eng, faults, calls, sink>>

\* embedding.cpp 180-210: SEP is appended where missing, the batch and the
\* zero-filled output buffer are allocated, p and s start at 0.
Prepare ==
    /\ pc = "tokenize"
    /\ Len(inputs) = n_prompts
    /\ inputs' = [x \in 1..Len(inputs) |-> AddSep(inputs[x])]
    /\ batch' = <<>>
    /\ owner' = <<>>
    /\ eng' = [eng EXCEPT !.emb = [x \in 1..(n_prompts * n_embd) |-> FZero]]
    /\ k' = 0 /\ p' = 0 /\ s' = 0
    /\ pc' = "loop"
    /\ UNCHANGED <<n_batch, manual_pooling, logits_file, pooling_type, n_prompts, source, rejected,
                   faults,
                   calls, sink, status>>

\* The decode function main() calls when the batch is at capacity (220-224).
FlushFn(manual) == IF manual THEN "manual" ELSE "batch_decode"

\* The decode function main() calls for the final batch (237).
FinalFn(manual) == "batch_decode"

\* embedding.cpp 218: encode if at capacity.
AtCapacity_ignoresIncoming(n_tokens, n_toks, cap) == n_tokens > cap

AtCapacity_atLeast(n_tokens, n_toks, cap) == n_tokens + n_toks >= cap

AtCapacity(n_tokens, n_toks, cap) == n_tokens + n_toks > cap

\* embedding.cpp 219 and 236: float * out = emb + p * n_embd.
OutOffset_noBase(np) == 0

OutOffset(np) == np * n_embd

\* A call of the decode function f on batch b with output offset base.
Call(f, b, own, base, o, g, st) ==
    IF f = "manual" THEN batch_decode_with_manual_pooling(b, own, base, o, g, st)
                    ELSE batch_decode(b, own, base, o, st)

\* Only batch_decode_with_manual_pooling has an uninitialized buffer.
Uninit(f) == IF f = "manual" THEN Garbage ELSE {0}

CallRecord(f, r, st) ==
    [fn |-> f, ret |-> r, n_seq |-> s, out |-> OutOffset(p), emb_after |-> st.emb]

\* embedding.cpp 225: llama_batch_clear(batch).
BatchClear(b) == <<>>

\* embedding.cpp 217-228: encode if at capacity: the decode function is called
\* on the current batch, the batch is cleared, p += s, s = 0.
EncodeIfAtCapacity ==
    /\ pc = "loop"
    /\ k < n_prompts
    /\ AtCapacity(Len(batch), Len(inputs[k + 1]), n_batch)
    /\ \E o \in EngineOutcomes(batch, pooling_type, faults),
          g \in Uninit(FlushFn(manual_pooling)) :
          LET f  == FlushFn(manual_pooling)
              st == Call(f, batch, owner, OutOffset(p), o, g, eng)
          IN  /\ eng' = [st EXCEPT !.events = Append(@, "batch_clear")]
              /\ calls' = Append(calls, CallRecord(f, "flush", st))
              /\ faults' = IF o = Nominal(batch, pooling_type) THEN faults ELSE faults + 1
    /\ batch' = BatchClear(batch)
    /\ owner' = <<>>
    /\ p' = p + s
    /\ s' = 0
    /\ pc' = "add"
    /\ UNCHANGED <<n_batch, manual_pooling, logits_file, pooling_type, n_prompts, source, rejected,
                   inputs,
                   k, sink, status>>

\* embedding.cpp 230-232: batch_add_seq(batch, inp, s, manual_pooling); s += 1.
\* The batch was allocated for n_batch slots (201): llama_batch_add beyond them
\* writes outside the allocation, which either ends the process or goes through.
BatchAddSeq ==
    /\ \/ pc = "add"
       \/ /\ pc = "loop"
          /\ k < n_prompts
          /\ ~AtCapacity(Len(batch), Len(inputs[k + 1]), n_batch)
    /\ LET inp == inputs[k + 1]
       IN  \/ /\ batch' = batch \o BatchAddSeqSlots(inp, s, manual_pooling)
              /\ owner' = owner \o [x \in 1..Len(inp) |-> k]
              /\ s' = s + 1
              /\ k' = k + 1
              /\ pc' = "loop"
              /\ UNCHANGED status
           \/ /\ Len(batch) + Len(inp) > n_batch
              /\ pc' = "exit"
              /\ status' = "crash"
              /\ UNCHANGED <<batch, owner, s, k>>
    /\ UNCHANGED <<n_batch, manual_pooling, logits_file, pooling_type, n_prompts, source, rejected,
                   inputs,
                   p, eng, faults, calls, sink>>

\* embedding.cpp 235-237: the final batch, after the loop.
FinalBatch ==
    /\ pc = "loop"
    /\ k >= n_prompts
    /\ \E o \in EngineOutcomes(batch, pooling_type, faults),
          g \in Uninit(FinalFn(manual_pooling)) :
          LET f  == FinalFn(manual_pooling)
              st == Call(f, batch, owner, OutOffset(p), o, g, eng)
          IN  /\ eng' = st
              /\ calls' = Append(calls, CallRecord(f, "final", st))
              /\ faults' = IF o = Nominal(batch, pooling_type) THEN faults ELSE faults + 1
    /\ pc' = "sink"
    /\ UNCHANGED <<n_batch, manual_pooling, logits_file, pooling_type, n_prompts, source, rejected,
                   inputs,
                   batch, owner, k, p, s, sink, status>>

PreviewCount == 3

Min_takesSecond(a, b) == b

Min(a, b) == IF a < b THEN a ELSE b

\* embedding.cpp 239-264: the output sink, the clean-up and return 0. fopen may
\* fail; nothing is written then.
OutputSink ==
    /\ pc = "sink"
    /\ IF logits_file # ""
       THEN \E opened \in BOOLEAN :
               sink' = IF opened THEN [kind |-> "file", data |-> eng.emb]
                                 ELSE [kind |-> "nofile", data |-> <<>>]
       ELSE sink' = [kind |-> "preview",
                     data |-> SubSeq(eng.emb, 1, Min(PreviewCount, n_prompts) * n_embd)]
    /\ status' = "exit0"
    /\ pc' = "exit"
    /\ UNCHANGED <<n_batch, manual_pooling, logits_file, pooling_type, n_prompts, source, rejected,
                   inputs,
                   batch, owner, k, p, s, eng, faults, calls>>

Next ==
    \/ Tokenize
    \/ Prepare
    \/ EncodeIfAtCapacity
    \/ BatchAddSeq
    \/ FinalBatch
    \/ OutputSink

Spec == Init /\ [][Next]_vars

\* ------------------------------------------------------------ properties
Prepared == pc \in {"loop", "add", "sink"} \/ (pc = "exit" /\ status # "exit1")

\* Every Sequence, separator included, has at most n_batch tokens.
SequencesFit == \A x \in 1..Len(inputs) : Len(AddSep(inputs[x])) <= n_batch

Decoded == eng.decoded

\* C1: when every Sequence (separator included) has at most n_batch tokens, the
\* batch never holds more than n_batch tokens, and neither does any batch that
\* was handed to llama_decode.
C1_BatchWithinCapacity ==
    SequencesFit =>
        /\ Len(batch) <= n_batch
        /\ \A i \in 1..Len(Decoded) : Len(Decoded[i].batch) <= n_batch

\* A full batch of two sequences, after an earlier batch was decoded.
C1_Witness ==
    /\ SequencesFit
    /\ pc = "loop"
    /\ Len(batch) = n_batch
    /\ s = 2
    /\ Len(Decoded) >= 1
    /\ Len(Decoded[1].batch) = n_batch

\* C2: every Sequence that reaches the Batch Assembler, separator included, has
\* at most n_batch tokens.
C2_SequencesWithinBatch ==
    Prepared => \A x \in 1..Len(inputs) : Len(inputs[x]) <= n_batch

\* C10: a token list longer than n_batch is never accepted; once one is rejected
\* the run has ended with return 1 and nothing was assembled, cleared, decoded,
\* written or output; no other run ends with return 1.
C10_RejectBeforeAssembly ==
    /\ pc = "tokenize" => \A x \in 1..Len(inputs) : Len(inputs[x]) <= n_batch
    /\ (status = "exit1") <=> (rejected # <<>>)
    /\ rejected # <<>> =>
          /\ Len(rejected[1]) > n_batch
          /\ pc = "exit"
          /\ batch = <<>>
          /\ eng.events = <<>> /\ Decoded = <<>> /\ eng.writes = <<>>
          /\ eng.emb = <<>>
          /\ calls = <<>>
          /\ sink.kind = "none"

\* The second prompt is the one rejected, after the first was accepted.
C10_Witness ==
    /\ rejected # <<>>
    /\ Len(inputs) = 1
    /\ status = "exit1"

\* The k of every token, and every token, over a sequence of token lists.
RECURSIVE OwnersOf(_, _)
OwnersOf(ins, m) ==
    IF m = 0 THEN <<>> ELSE OwnersOf(ins, m - 1) \o [x \in 1..Len(ins[m]) |-> m - 1]

RECURSIVE TokensOf(_, _)
TokensOf(ins, m) == IF m = 0 THEN <<>> ELSE TokensOf(ins, m - 1) \o ins[m]

\* The same over the first m decoded batches, in decode order.
RECURSIVE DecodedOwners(_)
DecodedOwners(m) == IF m = 0 THEN <<>> ELSE DecodedOwners(m - 1) \o Decoded[m].owner

RECURSIVE DecodedTokens(_)
DecodedTokens(m) ==
    IF m = 0 THEN <<>>
    ELSE DecodedTokens(m - 1) \o [x \in 1..Len(Decoded[m].batch) |-> Decoded[m].batch[x].token]

OwnerSet(d) == {d.owner[x] : x \in 1..Len(d.owner)}

RunOver == pc = "exit" /\ status # "exit1"

\* C3: at the end of a run that passed the input check, the decoded batches,
\* concatenated in decode order, are the input sequences in their order, token
\* for token, and every sequence lies in exactly one decoded batch.
C3_EveryTokenDecodedOnce ==
    RunOver =>
        /\ DecodedTokens(Len(Decoded)) = TokensOf(inputs, Len(inputs))
        /\ DecodedOwners(Len(Decoded)) = OwnersOf(inputs, Len(inputs))
        /\ \A kk \in 0..(n_prompts - 1) :
              Cardinality({i \in 1..Len(Decoded) : kk \in OwnerSet(Decoded[i])}) = 1

\* C4: at the head of an iteration the batch is decoded and cleared before
\* sequence k is added if and only if the tokens in the batch plus the length of
\* sequence k exceed n_batch, and no decode happens between that test and the
\* add; so when n_batch is the sum of the first two lengths the first decoded
\* batch holds exactly sequences 0 and 1, and lengths 4 and 6 with n_batch = 8
\* are decoded as two batches of one sequence each.
C4_FlushStep ==
    (pc = "loop" /\ k < n_prompts) =>
        ( (Len(batch) + Len(inputs[k + 1]) > n_batch)
          <=> ( /\ Len(eng'.decoded) = Len(eng.decoded) + 1
                /\ eng'.decoded[Len(eng'.decoded)].batch = batch
                /\ batch' = <<>>
                /\ k' = k ) )

C4_AddStep == (pc = "add") => (eng'.decoded = eng.decoded)

C4_Boundary ==
    (Prepared /\ n_prompts >= 2 /\ Len(Decoded) >= 1)
        => (Len(inputs[1]) + Len(inputs[2]) = n_batch => OwnerSet(Decoded[1]) = {0, 1})

C4_Scenario ==
    (RunOver /\ n_prompts = 2 /\ n_batch = 8 /\ Len(inputs[1]) = 4 /\ Len(inputs[2]) = 6)
        => /\ Len(Decoded) = 2
           /\ Decoded[1].owner = [x \in 1..4 |-> 0]
           /\ Decoded[2].owner = [x \in 1..6 |-> 1]

C4_GreedyFirstFit ==
    /\ [][C4_FlushStep /\ C4_AddStep]_vars
    /\ [](C4_Boundary /\ C4_Scenario)

\* Three sequences, n_batch the sum of the first two lengths: the first batch
\* was decoded with exactly sequences 0 and 1 and the third is about to be added.
C4_Witness ==
    /\ pc = "add"
    /\ n_prompts = 3
    /\ Len(inputs[1]) + Len(inputs[2]) = n_batch
    /\ Len(Decoded) = 1
    /\ OwnerSet(Decoded[1]) = {0, 1}

\* The number of sequences in the first m decoded batches.
RECURSIVE SeqsDecoded(_)
SeqsDecoded(m) ==
    IF m = 0 THEN 0 ELSE SeqsDecoded(m - 1) + Cardinality(OwnerSet(Decoded[m]))

\* C5: every write made for sequence k starts at k * n_embd and stays inside the
\* buffer, and the offset handed to each decode call is n_embd times the number
\* of sequences decoded in earlier batches.
C5_WritesInOwnRegion ==
    /\ \A x \in 1..Len(eng.writes) :
          LET w == eng.writes[x]
          IN  /\ w.off = w.k * n_embd
              /\ w.k \in 0..(n_prompts - 1)
              /\ w.off + n_embd <= Len(eng.emb)
              /\ w.off = calls[w.call].out
                           + Decoded[w.call].batch[w.slot + 1].seq_id * n_embd
    /\ Len(calls) = Len(Decoded)
    /\ \A i \in 1..Len(calls) : calls[i].out = SeqsDecoded(i - 1) * n_embd

\* A write for a sequence whose batch-local id differs from its global index.
C5_Witness ==
    \E x \in 1..Len(eng.writes) :
        LET w == eng.writes[x]
        IN  /\ w.call >= 2
            /\ Decoded[w.call].batch[w.slot + 1].seq_id = 1
            /\ w.k = 2

\* C6: every decode call on a batch that holds tokens, the one for the final
\* batch included, is made with the extractor the pooling mode selects.
C6_ExtractorFollowsMode ==
    \A i \in 1..Len(calls) :
        Len(Decoded[i].batch) > 0 =>
            calls[i].fn = (IF manual_pooling THEN "manual" ELSE "batch_decode")

\* The region of n_embd floats at offset off.
Region(buf, off) == [j \in 1..n_embd |-> buf[off + j]]

\* The elementwise mean of the per-token vectors of sequence sid of batch b.
MeanOf(b, sid) ==
    LET cnt == Cardinality({i \in 0..(Len(b) - 1) : Slot(b, i).seq_id = sid})
    IN  [j \in 1..n_embd |-> Flt(SeqEmbd(b, sid)[j], cnt, 1)]

\* C7: after a manual-pooling call for which every per-token embedding was
\* available, the output region of every sequence of the batch, the last one
\* included, holds the elementwise mean of its token vectors.
C7_ManualMeanEverySequence ==
    \A i \in 1..Len(calls) :
        (calls[i].fn = "manual" /\ Decoded[i].avail.toks = Marked(Decoded[i].batch))
            => \A sid \in SeqIds(Decoded[i].batch) :
                  Region(calls[i].emb_after, calls[i].out + sid * n_embd)
                      = MeanOf(Decoded[i].batch, sid)

\* C8: in the event history every decode directly follows a cache clear, every
\* cache clear is directly followed by a decode and that by the extraction, and
\* there is one decode per call of a decode function, made on a clean cache.
C8_ClearThenDecode ==
    LET ev == eng.events
    IN  /\ \A i \in 1..Len(ev) :
              /\ ev[i] = "decode" => (i > 1 /\ ev[i - 1] = "clear")
              /\ ev[i] = "clear" => (i < Len(ev) /\ ev[i + 1] = "decode")
              /\ ev[i] = "decode" =>
                    (i < Len(ev) /\ ev[i + 1] \in {"extract", "extract_manual"})
        /\ Cardinality({i \in 1..Len(ev) : ev[i] = "decode"}) = Len(calls)
        /\ Len(Decoded) = Len(calls)
        /\ \A i \in 1..Len(Decoded) : Decoded[i].clean

\* Both decode functions have been called in one run.
C8_Witness ==
    /\ \E i \in 1..Len(calls) : calls[i].fn = "manual"
    /\ \E i \in 1..Len(calls) : calls[i].fn = "batch_decode"
    /\ pc = "sink"

\* C9: a run in which the decode of a batch reported an error still ends with
\* return 0, with every sequence decoded once, in order, and the output sink run.
C9_DecodeFailureNonFatal ==
    (pc = "exit" /\ \E i \in 1..Len(Decoded) :
                        Decoded[i].avail.rc < 0 /\ Len(Decoded[i].batch) > 0) =>
        /\ status = "exit0"
        /\ sink.kind # "none"
        /\ DecodedOwners(Len(Decoded)) = OwnersOf(inputs, Len(inputs))
        /\ Len(calls) = Len(Decoded)


\* Slot x (from 1) of a batch with owners own is the last token of its sequence.
LastOfSeq(own, x) == x = Len(own) \/ own[x + 1] # own[x]

\* The batch, with its owners, in the current state and at every decode.
Batches ==
    {[batch |-> batch, owner |-> owner]}
    \cup {[batch |-> Decoded[i].batch, owner |-> Decoded[i].owner] : i \in 1..Len(Decoded)}

\* C11: in every assembled batch a token is marked as an output position exactly
\* when it is the last token of its sequence or pooling is manual; so without
\* manual pooling each sequence has exactly one marked token, its last.
C11_OutputPositions ==
    \A bo \in Batches :
        /\ \A x \in 1..Len(bo.batch) :
              bo.batch[x].logits <=> (manual_pooling \/ LastOfSeq(bo.owner, x))
        /\ ~manual_pooling =>
              \A kk \in {bo.owner[x] : x \in 1..Len(bo.owner)} :
                 Cardinality({x \in 1..Len(bo.batch) :
                                 bo.owner[x] = kk /\ bo.batch[x].logits}) = 1

\* Without manual pooling, a batch of two sequences one of which has an unmarked
\* token.
C11_Witness ==
    /\ ~manual_pooling
    /\ s = 2
    /\ \E x \in 1..Len(batch) : ~batch[x].logits


\* C12: the append step leaves a token list that ends with SEP unchanged and
\* appends one SEP to any other (the empty list included); afterwards every
\* sequence ends with SEP and the append step applied again changes nothing.
C12_AppendStep ==
    (pc = "tokenize" /\ pc' = "loop") =>
        /\ Len(inputs') = Len(inputs)
        /\ \A x \in 1..Len(inputs) :
              IF Len(inputs[x]) > 0 /\ inputs[x][Len(inputs[x])] = SEP
              THEN inputs'[x] = inputs[x]
              ELSE inputs'[x] = Append(inputs[x], SEP)

C12_Prepared ==
    Prepared =>
        \A x \in 1..Len(inputs) :
            /\ Len(inputs[x]) >= 1
            /\ inputs[x][Len(inputs[x])] = SEP
            /\ AddSep(inputs[x]) = inputs[x]

C12_SeparatorOnce == [][C12_AppendStep]_vars /\ []C12_Prepared

\* The lists [TOK], [SEP] and [] after the append step.
C12_Witness ==
    /\ source = 3
    /\ pc = "loop"
    /\ inputs = <<<<TOK, SEP>>, <<SEP>>, <<SEP>>>>


\* The marked slots of sequence id sid of batch b.
MarkedOf(b, sid) == {i \in Marked(b) : Slot(b, i).seq_id = sid}

Max(S) == CHOOSE x \in S : \A y \in S : y <= x

\* What the native extractor leaves in the region of sequence id sid, given only
\* what the engine holds for that sequence.
NativeExpected(b, sid, av) ==
    IF sid \in av.seqs /\ MarkedOf(b, sid) # {} THEN Normalize(SeqEmbd(b, sid))
    ELSE IF MarkedOf(b, sid) \cap av.toks # {}
         THEN Normalize(TokEmbd(b, Max(MarkedOf(b, sid) \cap av.toks)))
         ELSE [j \in 1..n_embd |-> FZero]

\* The marked slots of batch b for which the engine holds neither embedding.
Skipped(b, av) == {i \in Marked(b) : NativePick(b, i, av) = "none"}

\* C13: a write of the native extractor takes the pooled embedding whenever the
\* engine holds one for the slot's sequence id and the per-token embedding only
\* otherwise; after a call, the region of the sequence of every marked slot for
\* which the engine holds neither is all zero, and the region of every other
\* sequence holds what its own embeddings give.
C13_NativeFallback ==
    /\ \A x \in 1..Len(eng.writes) :
          LET w == eng.writes[x]
              d == Decoded[w.call]
          IN  /\ w.src = "seq" => d.batch[w.slot + 1].seq_id \in d.avail.seqs
              /\ w.src = "tok" => /\ d.batch[w.slot + 1].seq_id \notin d.avail.seqs
                                  /\ w.slot \in d.avail.toks
    /\ \A i \in 1..Len(calls) :
          calls[i].fn = "batch_decode" =>
              LET d == Decoded[i]
                  gone == {Slot(d.batch, x).seq_id : x \in Skipped(d.batch, d.avail)}
              IN  \A sid \in SeqIds(d.batch) :
                      Region(calls[i].emb_after, calls[i].out + sid * n_embd)
                          = IF sid \in gone THEN [j \in 1..n_embd |-> FZero]
                            ELSE NativeExpected(d.batch, sid, d.avail)

\* A native call on a batch of two sequences: the engine holds nothing for one
\* of them, whose region stays zero, and the other one is written.
C13_Witness ==
    \E i \in 1..Len(calls) :
        LET d == Decoded[i]
        IN  /\ calls[i].fn = "batch_decode"
            /\ d.avail.rc = 0
            /\ SeqIds(d.batch) = {0, 1}
            /\ d.avail.seqs = {}
            /\ MarkedOf(d.batch, 0) \cap d.avail.toks = {}
            /\ MarkedOf(d.batch, 1) \cap d.avail.toks # {}
            /\ Region(calls[i].emb_after, calls[i].out) = [j \in 1..n_embd |-> FZero]
            /\ Region(calls[i].emb_after, calls[i].out + n_embd)
                  # [j \in 1..n_embd |-> FZero]

\* C14: the sink acts only in a run that reached the end of the assembly, after
\* the last decode and extraction, and such a run ends with status 0 and one
\* sink behaviour: with a destination path the whole buffer of n_prompts * n_embd
\* floats goes to the file, or nothing at all when the file cannot be opened;
\* without a path the first min(3, n_prompts) vectors are printed.
C14_OutputSink ==
    /\ sink.kind # "none" =>
          /\ pc = "exit" /\ status = "exit0"
          /\ Len(calls) >= 1 /\ calls[Len(calls)].ret = "final"
          /\ calls[Len(calls)].emb_after = eng.emb
    /\ status = "exit0" =>
          /\ sink.kind # "none"
          /\ Len(eng.emb) = n_prompts * n_embd
          /\ IF logits_file # ""
             THEN \/ sink.kind = "file" /\ sink.data = eng.emb
                  \/ sink.kind = "nofile" /\ sink.data = <<>>
             ELSE /\ sink.kind = "preview"
                  /\ Len(sink.data)
                        = (IF n_prompts < PreviewCount THEN n_prompts ELSE PreviewCount) * n_embd
                  /\ \A x \in 1..Len(sink.data) : sink.data[x] = eng.emb[x]

\* A run of two batches whose destination could not be opened: nothing is
\* written and the status is 0.
C14_Witness ==
    /\ sink.kind = "nofile" /\ status = "exit0"
    /\ Len(calls) >= 2 /\ n_prompts >= 2

\* C15: in every assembled batch the position of a token is its index within
\* its own sequence, from 0 to the sequence's length - 1, and the sequence id is
\* the number of sequences added before its own since the last clear: the ids of
\* the current batch are 0..s-1 in slot order, and every batch starts at id 0.
C15_PositionsAndLocalIds ==
    /\ \A bo \in Batches :
          \A x \in 1..Len(bo.batch) :
              /\ bo.batch[x].pos = Cardinality({y \in 1..(x - 1) : bo.owner[y] = bo.owner[x]})
              /\ bo.batch[x].token = inputs[bo.owner[x] + 1][bo.batch[x].pos + 1]
              /\ LastOfSeq(bo.owner, x) =>
                    bo.batch[x].pos = Len(inputs[bo.owner[x] + 1]) - 1
              /\ bo.batch[x].seq_id = bo.owner[x] - bo.owner[1]
              /\ x > 1 => bo.batch[x].seq_id =
                              bo.batch[x - 1].seq_id
                                  + (IF bo.batch[x].pos = 0 THEN 1 ELSE 0)
    /\ Prepared => SeqIds(batch) = 0..(s - 1)
    /\ \A i \in 1..Len(calls) : SeqIds(Decoded[i].batch) = 0..(calls[i].n_seq - 1)

\* The second batch of a run, holding two sequences with ids 0 and 1 whose
\* global indexes are 1 and 2, after a first batch of one two-token sequence.
C15_Witness ==
    /\ Len(Decoded) = 1 /\ p = 1 /\ s = 2
    /\ Len(Decoded[1].batch) = 2 /\ Decoded[1].batch[2].pos = 1
    /\ SeqIds(batch) = {0, 1}
    /\ {owner[x] : x \in 1..Len(owner)} = {1, 2}
    /\ batch[2].pos = 0 /\ batch[2].seq_id = 1

\* The slots (from 0) of sequence id sid of batch b.
SlotsOf(b, sid) == {x \in 0..(Len(b) - 1) : Slot(b, x).seq_id = sid}

\* The boundary indexes of batch b: the slots after the first whose position is 0.
Boundaries(b) == {x \in 1..(Len(b) - 1) : Slot(b, x).pos = 0}

\* The manual-pooling writes of call i.
MeanWrites(i) ==
    {x \in 1..Len(eng.writes) : eng.writes[x].call = i /\ eng.writes[x].src = "mean"}

\* C16: in a manual-pooling call for which every per-token embedding was
\* available there is one write per boundary index; its run starts at the first
\* slot of the sequence that ends just before the boundary and is as long as
\* that sequence, the value is the elementwise sum of that sequence's token
\* vectors divided by the run length, and it goes to the region of the global
\* index of that sequence, not of the sequence that starts at the boundary.
C16_BoundaryPooling ==
    \A i \in 1..Len(calls) :
        (calls[i].fn = "manual" /\ Decoded[i].avail.toks = Marked(Decoded[i].batch)) =>
            LET b == Decoded[i].batch
                own == Decoded[i].owner
            IN  /\ {eng.writes[x].slot + 1 : x \in MeanWrites(i)} = Boundaries(b)
                /\ Cardinality(MeanWrites(i)) = Cardinality(Boundaries(b))
                /\ \A x \in MeanWrites(i) :
                      LET w == eng.writes[x]
                          sid == Slot(b, w.slot).seq_id
                      IN  /\ \A y \in SlotsOf(b, sid) : w.from <= y
                          /\ w.from \in SlotsOf(b, sid)
                          /\ w.n = Cardinality(SlotsOf(b, sid))
                          /\ sid # Slot(b, w.slot + 1).seq_id
                          /\ w.k = own[w.slot + 1]
                          /\ w.off = w.k * n_embd
                          /\ Region(calls[i].emb_after, w.off)
                                = [j \in 1..n_embd |->
                                      Flt(SeqEmbd(b, sid)[j], w.n, 1)]

\* A manual-pooling call with every embedding available that pooled a run of
\* two tokens at a boundary.
C16_Witness ==
    \E x \in 1..Len(eng.writes) :
        LET w == eng.writes[x]
        IN  /\ w.src = "mean" /\ w.n = 2
            /\ Decoded[w.call].avail.toks = Marked(Decoded[w.call].batch)
            /\ calls[w.call].fn = "manual"

\* C17: after a manual-pooling call, every sequence of the batch whose own
\* per-token embeddings were all available, and which is followed by another
\* sequence in the batch, holds in its region the elementwise mean of its token
\* vectors, whichever embeddings of the other sequences were missing.
C17_MissingTokenIsLocal ==
    \A i \in 1..Len(calls) :
        calls[i].fn = "manual" =>
            LET b == Decoded[i].batch
            IN  \A sid \in SeqIds(b) :
                    (SlotsOf(b, sid) \subseteq Decoded[i].avail.toks /\ sid # Max(SeqIds(b)))
                        => Region(calls[i].emb_after, calls[i].out + sid * n_embd)
                              = MeanOf(b, sid)

\* C18: over a whole run no two writes go to the region of the same sequence.
C18_RegionWrittenOnce ==
    \A x, y \in 1..Len(eng.writes) :
        eng.writes[x].k = eng.writes[y].k => x = y

\* C19: in a run over at least one prompt that passed the input length check,
\* every decoded batch holds at least one token and there are never more decode
\* calls than prompts; the run ends with return 0, by when at least one decode
\* call was made.
C19_DecodeCallsBounded ==
    (Prepared /\ n_prompts >= 1) =>
        /\ \A i \in 1..Len(Decoded) : Len(Decoded[i].batch) >= 1
        /\ Len(Decoded) <= n_prompts
        /\ Len(calls) = Len(Decoded)
        /\ pc = "exit" => (status = "exit0" /\ Len(Decoded) >= 1)

====
